---- MODULE Spec2Model ----
(***************************************************************************)
(* A model of sync_gateway's channel-log writer (db/changes_writer.go):     *)
(* the changesWriter that fans a change out to per-channel                 *)
(* channelLogWriters, each a goroutine draining a buffered Go channel and  *)
(* committing batches to the channel's log document with WriteUpdate.      *)
(*                                                                         *)
(* The bucket (walrus), the channels package (LogEntry, ChangeLog, the log *)
(* encoding and its truncation) and the configuration variables are not    *)
(* part of changes_writer.go; they are modelled from the specification.    *)
(***************************************************************************)
EXTENDS Integers, Sequences, FiniteSets, TLC

(***************************************************************************)
(* Bounds of the model.                                                    *)
(***************************************************************************)
\* Sequence numbers of changes are drawn from 1..MaxSeq.
MaxSeq == 3
\* Number of addToChangeLogs / addChangeLog calls the producer makes.
MaxCalls == 3
\* Number of entries of the documents the bucket may hold at the start.
MaxDocEntries == 3
\* Number of channelLogWriters ever created (lazy re-creation after checkpoint).
MaxWriters == 4
\* Number of checkpoint() calls.
MaxCheckpoints == 1
\* Number of writes to log documents by writers outside this process.
MaxExternalWrites == 1
\* Bytes one encoded field stands for (strings and varints are variable-length).
FieldBytes == 2000

(***************************************************************************)
(* Program constants and configuration.                                    *)
(***************************************************************************)
\* const kChannelLogWriterQueueLength (1000 in the source, scaled down).
kChannelLogWriterQueueLength == 3
\* var MaxChangeLogLength (configuration, scaled down).
MaxChangeLogLength == 2
\* The size threshold and divisor of the full-update heuristic.
kFullUpdateMinBytes == 20000
kFullUpdateDivisor == 5000
kRandRange == 100
\* channels.Deleted, channels.Removed: bits of LogEntry.Flags.
Deleted == 1
Removed == 2

kChannelLogDocType == "log2"
kChannelLogKeyPrefix == <<"_sync:", kChannelLogDocType, ":">>

\* Channel names of the membership maps, and the universal channel.
Channels == {"A", "B"}
StarChannel == "*"
AllChannels == Channels \cup {StarChannel}

Producers == {"p1"}
CheckpointThread == "cp"
NoThread == "none"

\* Inputs of the callers.
Sequences_ == 1..MaxSeq
DocIDs == {1}
RevIDs == {1}
ParentRevIDs == {0}
InputFlags == {0, Deleted + Removed}
\* A removal marker of a membership entry: 0 is nil, s > 0 is Removal{Seq: s}.
NoRemoval == 0
Removals == {NoRemoval} \cup Sequences_

(***************************************************************************)
(* channelLogDocID: the document key of a channel's log.                   *)
(***************************************************************************)
channelLogDocID(channelName) == kChannelLogKeyPrefix \o <<channelName>>

DocKeys == {channelLogDocID(c) : c \in AllChannels}

(***************************************************************************)
(* LogEntry, ChangeLog and the encoded log.  An encoded log is a sequence  *)
(* of fields: the log's Since, then for every entry its Flags, Sequence,   *)
(* DocID, RevID and parent revision ID.                                    *)
(***************************************************************************)
LogEntry(seq, doc, rev, flags) ==
  [Sequence |-> seq, DocID |-> doc, RevID |-> rev, Flags |-> flags]

kEntryFields == 5

\* The value of a missing document in the bucket (GetRaw: not found).
NoDoc == <<-1>>

\* flags | channels.Removed
SetRemoved(flags) ==
  IF (flags \div Removed) % 2 = 1 THEN flags ELSE flags + Removed

\* flags &^ channels.Removed
ClearRemoved(flags) ==
  IF (flags \div Removed) % 2 = 1 THEN flags - Removed ELSE flags

HasRemoved(flags) == (flags \div Removed) % 2 = 1

\* LogEntry.Encode(w, parent)
EncodeEntry(entry, parent) ==
  <<entry.Flags, entry.Sequence, entry.DocID, entry.RevID, parent>>

RECURSIVE EncodeEntries(_)
\* Encodes the pending writes of a batch one after the other.
EncodeEntries(entries) ==
  IF entries = <<>> THEN <<>>
  ELSE EncodeEntry(Head(entries).logEntry, Head(entries).parentRevID)
         \o EncodeEntries(Tail(entries))

RECURSIVE EncodeLogEntries(_)
\* ChangeLog.Encode writes every entry with an empty parent.
EncodeLogEntries(es) ==
  IF es = <<>> THEN <<>>
  ELSE EncodeEntry(Head(es), 0) \o EncodeLogEntries(Tail(es))

\* ChangeLog.Add: appends, and moves Since below the first entry.
ChangeLogAdd(log, newEntry) ==
  [Since |-> IF Len(log.Entries) = 0 \/ newEntry.Sequence <= log.Since
               THEN newEntry.Sequence - 1 ELSE log.Since,
   Entries |-> Append(log.Entries, newEntry)]

EmptyChangeLog == [Since |-> 0, Entries |-> <<>>]

RECURSIVE AddAll(_, _)
AddAll(log, entries) ==
  IF entries = <<>> THEN log
  ELSE AddAll(ChangeLogAdd(log, Head(entries).logEntry), Tail(entries))

\* encodeChannelLog
encodeChannelLog(log) == <<log.Since>> \o EncodeLogEntries(log.Entries)

\* Number of entries of an encoded log.
NumEncoded(raw) == IF Len(raw) = 0 THEN 0 ELSE (Len(raw) - 1) \div kEntryFields

\* The i-th entry of an encoded log, and its parent revision.
EncodedEntry(raw, i) ==
  LET b == 1 + (i - 1) * kEntryFields
  IN LogEntry(raw[b + 2], raw[b + 3], raw[b + 4], raw[b + 1])

EncodedParent(raw, i) == raw[1 + i * kEntryFields]

\* channels.DecodeChangeLog
DecodeChangeLog(raw) ==
  [Since |-> raw[1],
   Entries |-> [i \in 1..NumEncoded(raw) |-> EncodedEntry(raw, i)]]

\* A nil *ChangeLog, and a nil *LogEntry.
NilLog == [Since |-> -1, Entries |-> <<>>]
NilEntry == LogEntry(0, 0, 0, 0)

\* decodeChannelLog (nil stays nil)
decodeChannelLog(raw) == IF raw = NoDoc THEN NilLog ELSE DecodeChangeLog(raw)

RECURSIVE SelectAfter(_, _)
SelectAfter(es, after) ==
  IF es = <<>> THEN <<>>
  ELSE IF Head(es).Sequence > after
         THEN <<Head(es)>> \o SelectAfter(Tail(es), after)
         ELSE SelectAfter(Tail(es), after)

\* ChangeLog.FilterAfter: keeps the entries with Sequence > after.
FilterAfter(log, after) ==
  [Since |-> IF after > log.Since THEN after ELSE log.Since,
   Entries |-> SelectAfter(log.Entries, after)]

\* len(currentValue) in bytes.
ByteLen(raw) == Len(raw) * FieldBytes

Max(S) == CHOOSE x \in S : \A y \in S : y <= x

\* channels.TruncateEncodedChangeLog(r, maxLength, minLength, w): the
\* outcomes (removed count and bytes written) the truncation may have. It
\* removes nothing from a log of at most maxLength entries; otherwise it
\* drops the oldest entries and keeps between minLength and maxLength, or
\* gives up and removes nothing.
TruncateEncodedChangeLog(raw, maxLength, minLength) ==
  LET n == NumEncoded(raw)
      keep(k) ==
        [removed |-> n - k,
         value |-> <<Max({EncodedEntry(raw, i).Sequence : i \in 1..(n - k)})>>
                     \o SubSeq(raw, 2 + (n - k) * kEntryFields, Len(raw))]
  IN IF n <= maxLength
       THEN {[removed |-> 0, value |-> <<>>]}
       ELSE {[removed |-> 0, value |-> <<>>]}
              \cup {keep(k) : k \in minLength..maxLength}

(***************************************************************************)
(* The state.                                                              *)
(***************************************************************************)
VARIABLES
  EnableStarChannelLog,    \* configuration: write the universal "*" log
  AlwaysCompactChangeLog,  \* configuration: full update on every write
  bucket,       \* the log documents: document key -> encoded log or NoDoc
  lock,         \* changesWriter.lock: the thread holding it, or NoThread
  logWriters,   \* changesWriter.logWriters: channel -> writer id, 0 is nil
  writers,      \* the channelLogWriters created so far, with their goroutines
  prod,         \* the producer threads (callers of the changesWriter)
  cp,           \* the thread calling checkpoint()
  calls,        \* number of write calls made so far
  extWrites,    \* number of writes by external writers so far
  crashed,      \* a goroutine panicked (send on a closed channel)
  failed        \* history: some WriteUpdate returned an error

vars == <<EnableStarChannelLog, AlwaysCompactChangeLog, bucket, lock,
          logWriters, writers, prod, cp, calls, extWrites, crashed, failed>>

config == <<EnableStarChannelLog, AlwaysCompactChangeLog>>

\* A pending write (changeEntry): an append ...
AppendEntry(entry, parentRevID) ==
  [logEntry |-> entry, parentRevID |-> parentRevID, replacementLog |-> NilLog]

\* ... or a request to seed the channel's log.
SeedEntry(log) ==
  [logEntry |-> NilEntry, parentRevID |-> 0, replacementLog |-> log]

\* A test that takes no pending write for a seed.
IsSeedNever(item) == FALSE

IsSeed(item) == item.replacementLog # NilLog

\* The membership maps a caller may pass: channel -> removal marker.
ChannelMaps == UNION {[S -> Removals] : S \in SUBSET Channels}

\* The log with entries of these sequence numbers, in this order.
SeedLogOf(q) ==
  [Since |-> 0, Entries |-> [i \in 1..Len(q) |-> LogEntry(q[i], 1, 1, 0)]]

\* The logs a caller may seed a channel with: entries of any sequence
\* numbers in any order (addChangeLog passes the log on as it is).
SeedLogs ==
  {SeedLogOf(q) : q \in UNION {[1..k -> Sequences_] : k \in 1..MaxSeq}}

EmptyMap == [c \in {} |-> NoRemoval]

IdleProducer ==
  [pc |-> "idle", channelMap |-> EmptyMap, todo |-> {}, entry |-> NilEntry,
   parentRevID |-> 0, channel |-> "", writer |-> 0, item |-> SeedEntry(NilLog),
   arg |-> NilEntry, enq |-> <<>>, afterSeq |-> 0, log |-> NilLog, err |-> FALSE,
   raw |-> NoDoc, getErr |-> FALSE]

IdleCheckpoint ==
  [pc |-> "idle", todo |-> {}, cur |-> 0, count |-> 0,
   all |-> {},     \* history: the writers registered when checkpoint was called
   snap |-> {}]    \* history: the appends not yet written at that moment

\* newChannelLogWriter: the writer's fields and the state of its goroutine.
newChannelLogWriter(channelName) ==
  [channelName |-> channelName,
   io |-> <<>>,              \* the buffered channel of pending writes
   closed |-> FALSE,         \* close(c.io) was called
   awake |-> FALSE,          \* close(c.awake) was called
   pc |-> "readChange",      \* where the goroutine is
   entries |-> <<>>,         \* the batch being read or written
   seed |-> NilLog,          \* the replacementLog received, not yet passed to AddRaw
   currentValue |-> NoDoc,   \* what WriteUpdate passed to the callback
   newValue |-> <<>>,        \* what the callback returned
   fullUpdate |-> FALSE,
   removedCount |-> 0,
   err |-> FALSE,            \* what the last addToChangeLog_ returned (err # nil)
   batch |-> <<>>,           \* history: the batch as passed to addToChangeLog_
   arrived |-> <<>>,         \* history: the batch as read from io, before the sort
   attempts |-> 0,           \* history: invocations of the callback in this commit
   atClose |-> FALSE,        \* history: io held pending writes when it was closed
   unhanded |-> <<>>]        \* history: sent to io, not yet handed to a store write

EmptyBucket == [k \in DocKeys |-> NoDoc]

\* The bucket with this document as channel A's log.
BucketWith(doc) == [EmptyBucket EXCEPT ![channelLogDocID("A")] = doc]

\* The state after newChangesWriter, under any configuration, with the
\* bucket and the callers as given.
Start(b, callers) ==
  /\ EnableStarChannelLog \in BOOLEAN
  /\ AlwaysCompactChangeLog \in BOOLEAN
  /\ bucket = b
  /\ lock = NoThread
  /\ logWriters = [c \in AllChannels |-> 0]
  /\ writers = <<>>
  /\ prod = callers
  /\ cp = IdleCheckpoint
  /\ calls = 0
  /\ extWrites = 0
  /\ crashed = FALSE
  /\ failed = FALSE

(***************************************************************************)
(* The bucket.                                                             *)
(***************************************************************************)
\* bucket.AddRaw: stores the value only if the key holds no document.
AddRaw(b, key, value) ==
  IF b[key] = NoDoc THEN [b EXCEPT ![key] = value] ELSE b

\* What WriteUpdate passes to its callback: nil (no bytes) for a missing document.
CurrentValue(raw) == IF raw = NoDoc THEN <<>> ELSE raw

(***************************************************************************)
(* The goroutine of a channelLogWriter.                                    *)
(***************************************************************************)
RECURSIVE RemoveOne(_, _)
\* s without the first occurrence of x.
RemoveOne(s, x) ==
  IF s = <<>> THEN <<>>
  ELSE IF Head(s) = x THEN Tail(s) ELSE <<Head(s)>> \o RemoveOne(Tail(s), x)

RECURSIVE RemoveEach(_, _)
\* s without one occurrence of each element of xs.
RemoveEach(s, xs) ==
  IF xs = <<>> THEN s ELSE RemoveEach(RemoveOne(s, Head(xs)), Tail(xs))

\* A comparison the wrong way round: the higher Sequence first.
LessDescending(a, b) == a.logEntry.Sequence > b.logEntry.Sequence

\* changeEntryList.Less
Less(a, b) == a.logEntry.Sequence < b.logEntry.Sequence

\* The orders sort.Sort may leave a batch in: every permutation in which no
\* entry precedes one that is Less than it (sort.Sort is not stable).
SortOutcomes(changes) ==
  LET n == Len(changes)
      perms == {f \in [1..n -> 1..n] : \A i, j \in 1..n : i # j => f[i] # f[j]}
      sorted(f) == \A i, j \in 1..n : i < j => ~Less(changes[f[j]], changes[f[i]])
  IN {[i \in 1..n |-> changes[f[i]]] : f \in {g \in perms : sorted(g)}}

\* A massageChanges that forgets to sort.
massageChangesUnsorted(changes) == {changes}

\* massageChanges: the batch sorted by Sequence.
massageChanges(changes) == SortOutcomes(changes)

\* An addChangeLog_ that stores the log whether or not the bucket holds one.
addChangeLog_Overwrite(b, channelName, log) ==
  [b EXCEPT ![channelLogDocID(channelName)] = encodeChannelLog(log)]

\* addChangeLog_: seeds the channel's log if the bucket holds none.
addChangeLog_(b, channelName, log) ==
  AddRaw(b, channelLogDocID(channelName), encodeChannelLog(log))

\* A fullUpdate decided by the size heuristic alone.
FullUpdateBySizeOnly(currentValue) ==
  {ByteLen(currentValue) > kFullUpdateMinBytes
     /\ r < ByteLen(currentValue) \div kFullUpdateDivisor :
   r \in 0..(kRandRange - 1)}

\* The values fullUpdate may take for a document of this size.
FullUpdateChoices(currentValue) ==
  {AlwaysCompactChangeLog
     \/ (ByteLen(currentValue) > kFullUpdateMinBytes
           /\ r < ByteLen(currentValue) \div kFullUpdateDivisor) :
   r \in 0..(kRandRange - 1)}

\* A trim that drops one entry more than -numToKeep.
TrimBatchOneMore(entries, numToKeep) ==
  IF numToKeep < 0 THEN SubSeq(entries, 2 - numToKeep, Len(entries)) ELSE entries

\* Entries kept from the front of the batch: entries[:MaxChangeLogLength].
TrimBatchOldest(entries, numToKeep) ==
  IF numToKeep < 0 THEN SubSeq(entries, 1, Len(entries) + numToKeep) ELSE entries

\* The entries the callback keeps of a batch longer than MaxChangeLogLength:
\* entries[-numToKeep:].
TrimBatch(entries, numToKeep) ==
  IF numToKeep < 0 THEN SubSeq(entries, 1 - numToKeep, Len(entries)) ELSE entries

\* An append path that encodes the batch as a log of its own.
AppendToNothing(currentValue, entries) ==
  encodeChannelLog(AddAll(EmptyChangeLog, entries))

\* An append path that puts the encoded entries in front of the stored ones.
AppendToFront(currentValue, entries) ==
  <<Head(currentValue)>> \o EncodeEntries(entries) \o Tail(currentValue)

\* The append path of the callback: the encoded entries are appended to the
\* raw bytes of the log.
AppendTo(currentValue, entries) == currentValue \o EncodeEntries(entries)

\* The callback addToChangeLog_ passes to WriteUpdate, on the document's
\* current value and the writer's batch: its possible results, each with the
\* value returned and the variables of addToChangeLog_ it assigns.
UpdateCallback(currentValue, entries) ==
  LET numToKeep == MaxChangeLogLength - Len(entries)
      appended(fu) ==
        [value |-> AppendTo(currentValue, entries), entries |-> entries,
         fullUpdate |-> fu, removedCount |-> 0]
  IN IF Len(currentValue) = 0 \/ numToKeep <= 0
       THEN LET kept == TrimBatch(entries, numToKeep)
            IN {[value |-> encodeChannelLog(AddAll(EmptyChangeLog, kept)),
                 entries |-> kept, fullUpdate |-> fu, removedCount |-> 0] :
                fu \in FullUpdateChoices(currentValue)}
       ELSE UNION {
              IF fu
                THEN {IF t.removed > 0
                        THEN [value |-> t.value \o EncodeEntries(entries),
                              entries |-> entries, fullUpdate |-> fu,
                              removedCount |-> t.removed]
                        ELSE appended(fu) :
                      t \in TruncateEncodedChangeLog(currentValue, numToKeep,
                                                     numToKeep \div 2)}
                ELSE {appended(fu)} :
              fu \in FullUpdateChoices(currentValue)}

\* A loop that ends the goroutine when addToChangeLog_ returns an error.
LoopBreaksOnError(c, err) ==
  [c EXCEPT !.pc = IF err THEN "exited" ELSE "readChange",
            !.awake = err, !.entries = <<>>, !.currentValue = NoDoc,
            !.newValue = <<>>, !.fullUpdate = FALSE, !.removedCount = 0,
            !.err = err, !.batch = <<>>, !.arrived = <<>>, !.attempts = 0]

\* The goroutine's loop after addToChangeLog_ has returned err: the result
\* is dropped, the batch is gone, and the loop reads the next changes.
LoopAfter(c, err) ==
  [c EXCEPT !.pc = "readChange", !.entries = <<>>, !.currentValue = NoDoc,
            !.newValue = <<>>, !.fullUpdate = FALSE, !.removedCount = 0,
            !.err = err, !.batch = <<>>, !.arrived = <<>>, !.attempts = 0]

Writers == 1..Len(writers)

\* A receive that reports !ok as soon as io is closed, whatever is left in it.
ReceiveNotOkWhenClosed(c) == c.closed

\* The receive from io reports !ok: io is closed and nothing is left in it.
ReceiveNotOk(c) == c.closed /\ c.io = <<>>

\* readChange_: blocks for a pending write; a seed is received and then
\* passed to addChangeLog_ (the next step of the goroutine), an append starts
\* the batch, and a closed and empty io ends the goroutine (readChanges_
\* returns nil, the loop breaks, awake is closed).
readChange_(w) ==
  LET c == writers[w] IN
  /\ ~crashed
  /\ c.pc = "readChange"
  /\ c.seed = NilLog
  /\ \/ /\ ReceiveNotOk(c)
        /\ writers' = [writers EXCEPT ![w].pc = "exited", ![w].awake = TRUE,
                         ![w].io = <<>>]
     \/ /\ c.io # <<>> /\ IsSeed(Head(c.io))
        /\ writers' = [writers EXCEPT ![w].io = Tail(c.io),
                         ![w].seed = Head(c.io).replacementLog]
     \/ /\ c.io # <<>> /\ ~IsSeed(Head(c.io))
        /\ writers' = [writers EXCEPT ![w].io = Tail(c.io),
                         ![w].entries = <<Head(c.io)>>, ![w].pc = "readMore"]
  /\ UNCHANGED <<config, bucket, lock, logWriters, prod, cp, calls, extWrites,
                 crashed, failed>>

\* The call c.addChangeLog_(entry.replacementLog) of readChange_ and of
\* readChanges_, made after the receive has completed: AddRaw stores the
\* seed if the bucket holds no log of the channel; the result is ignored and
\* the loop goes on to its next receive.
addChangeLog_AddRaw(w) ==
  LET c == writers[w] IN
  /\ ~crashed
  /\ c.pc \in {"readChange", "readMore"}
  /\ c.seed # NilLog
  /\ bucket' = addChangeLog_(bucket, c.channelName, c.seed)
  /\ writers' = [writers EXCEPT ![w].seed = NilLog,
                   ![w].unhanded = RemoveOne(c.unhanded, SeedEntry(c.seed))]
  /\ UNCHANGED <<config, lock, logWriters, prod, cp, calls, extWrites, crashed, failed>>

\* readChanges_: reads what else is available without blocking, up to the
\* queue length (a seed is received and then passed to addChangeLog_); then the goroutine sorts the batch (massageChanges) and
\* calls addToChangeLog_.
readChanges_(w) ==
  LET c == writers[w] IN
  /\ ~crashed
  /\ c.pc = "readMore"
  /\ c.seed = NilLog
  /\ IF Len(c.entries) < kChannelLogWriterQueueLength /\ c.io # <<>>
       THEN IF IsSeed(Head(c.io))
              THEN writers' = [writers EXCEPT ![w].io = Tail(c.io),
                                 ![w].seed = Head(c.io).replacementLog]
              ELSE writers' = [writers EXCEPT ![w].io = Tail(c.io),
                                 ![w].entries = Append(c.entries, Head(c.io))]
       ELSE \E sorted \in massageChanges(c.entries) :
              writers' = [writers EXCEPT ![w].entries = sorted,
                            ![w].pc = "update",
                            ![w].batch = sorted,
                            ![w].arrived = c.entries,
                            ![w].unhanded = RemoveEach(c.unhanded, c.entries)]
  /\ UNCHANGED <<config, bucket, lock, logWriters, prod, cp, calls, extWrites,
                 crashed, failed>>

\* addToChangeLog_, first half: WriteUpdate reads the document and invokes
\* the callback on it.
addToChangeLog_(w) ==
  LET c == writers[w]
      cur == CurrentValue(bucket[channelLogDocID(c.channelName)])
  IN
  /\ ~crashed
  /\ c.pc = "update"
  /\ \E r \in UpdateCallback(cur, c.entries) :
       writers' = [writers EXCEPT ![w].pc = "write",
                     ![w].currentValue = bucket[channelLogDocID(c.channelName)],
                     ![w].newValue = r.value,
                     ![w].attempts = c.attempts + 1,
                     ![w].entries = r.entries,
                     ![w].fullUpdate = r.fullUpdate,
                     ![w].removedCount = r.removedCount]
  /\ UNCHANGED <<config, bucket, lock, logWriters, prod, cp, calls, extWrites, crashed, failed>>

\* WriteUpdate, second half: the value is stored if the document is still the
\* one that was read; otherwise the callback is invoked again.
WriteUpdate(w) ==
  LET c == writers[w]
      key == channelLogDocID(c.channelName)
  IN
  /\ ~crashed
  /\ c.pc = "write"
  /\ IF bucket[key] = c.currentValue
       THEN /\ bucket' = [bucket EXCEPT ![key] = c.newValue]
            /\ writers' = [writers EXCEPT ![w] = LoopAfter(c, FALSE)]
       ELSE /\ writers' = [writers EXCEPT ![w].pc = "update"]
            /\ UNCHANGED bucket
  /\ UNCHANGED <<config, lock, logWriters, prod, cp, calls, extWrites, crashed, failed>>

\* WriteUpdate fails for good: addToChangeLog_ returns the error, which the
\* goroutine ignores; the document is left as it is.
WriteUpdateFails(w) ==
  LET c == writers[w] IN
  /\ ~crashed
  /\ c.pc \in {"update", "write"}
  /\ writers' = [writers EXCEPT ![w] = LoopAfter(c, TRUE)]
  /\ failed' = TRUE
  /\ UNCHANGED <<config, bucket, lock, logWriters, prod, cp, calls, extWrites, crashed>>

(***************************************************************************)
(* The changesWriter: the callers' side.                                   *)
(***************************************************************************)
\* logWriterForChannel: under the lock, the channel's writer, created (with
\* its goroutine) if the registry holds none. The critical section does not
\* block, so it is one step, enabled when the lock is free.
logWriterForChannel(p, channelName, next) ==
  /\ lock = NoThread
  /\ IF logWriters[channelName] = 0
       THEN /\ Len(writers) < MaxWriters
            /\ writers' = Append(writers, newChannelLogWriter(channelName))
            /\ logWriters' = [logWriters EXCEPT ![channelName] = Len(writers) + 1]
            /\ prod' = [prod EXCEPT ![p] = [next EXCEPT !.writer = Len(writers) + 1]]
       ELSE /\ prod' = [prod EXCEPT ![p] = [next EXCEPT !.writer = logWriters[channelName]]]
            /\ UNCHANGED <<writers, logWriters>>
  /\ UNCHANGED lock

\* A flag setting that sets Removed for a removal and otherwise leaves the
\* flags as they are.
FlagForNoClear(entry, removal) ==
  [entry EXCEPT !.Flags = IF removal # NoRemoval THEN SetRemoved(entry.Flags)
                          ELSE entry.Flags]

\* A test that takes no removal marker for stale.
IsStaleNever(removal, entry) == FALSE

\* A "*" entry with the flags as the range left them.
StarEntryAsIs(entry) == entry

\* The entry addToChangeLogs hands to a channel of the map: the Removed flag
\* set if the channel has a removal marker, cleared if not.
FlagFor(entry, removal) ==
  [entry EXCEPT !.Flags = IF removal # NoRemoval THEN SetRemoved(entry.Flags)
                          ELSE ClearRemoved(entry.Flags)]

\* A removal marker of another sequence: the channel is skipped.
IsStale(removal, entry) == removal # NoRemoval /\ removal # entry.Sequence

\* The entry addToChangeLogs hands to the "*" channel.
StarEntry(entry) == [entry EXCEPT !.Flags = ClearRemoved(entry.Flags)]

\* A caller that has entered addToChangeLogs(_, channelMap, entry, parentRevID).
Entered(channelMap, entry, parentRevID) ==
  [IdleProducer EXCEPT !.pc = "range", !.channelMap = channelMap,
     !.todo = DOMAIN channelMap, !.entry = entry, !.arg = entry,
     !.parentRevID = parentRevID]

\* A caller enters addToChangeLogs.
addToChangeLogsCall(p, maps, flagSet) ==
  /\ ~crashed
  /\ prod[p].pc = "idle"
  /\ calls < MaxCalls
  /\ \E channelMap \in maps, seq \in Sequences_, doc \in DocIDs,
        rev \in RevIDs, flags \in flagSet, parent \in ParentRevIDs :
       prod' = [prod EXCEPT ![p] =
                  Entered(channelMap, LogEntry(seq, doc, rev, flags), parent)]
  /\ calls' = calls + 1
  /\ UNCHANGED <<config, bucket, lock, logWriters, writers, cp, extWrites, crashed, failed>>

\* addToChangeLogs, one iteration of the range over channelMap (in any
\* order): a stale removal is skipped; otherwise the flag is set and
\* addToChangeLog looks the channel's writer up.
addToChangeLogs(p) ==
  LET s == prod[p] IN
  /\ ~crashed
  /\ s.pc = "range"
  /\ \E channel \in s.todo :
       IF IsStale(s.channelMap[channel], s.entry)
         THEN /\ prod' = [prod EXCEPT ![p].todo = s.todo \ {channel}]
              /\ UNCHANGED <<lock, logWriters, writers>>
         ELSE LET entry == FlagFor(s.entry, s.channelMap[channel])
              IN logWriterForChannel(p, channel,
                   [s EXCEPT !.todo = s.todo \ {channel}, !.entry = entry,
                             !.channel = channel, !.pc = "addChange",
                             !.item = AppendEntry(entry, s.parentRevID)])
  /\ UNCHANGED <<config, bucket, cp, calls, extWrites, crashed, failed>>

\* addToChangeLogs after the range: the change goes to "*" if the universal
\* channel is enabled; then the call returns.
addToChangeLogsStar(p) ==
  LET s == prod[p] IN
  /\ ~crashed
  /\ s.pc = "range"
  /\ s.todo = {}
  /\ IF EnableStarChannelLog /\ s.channel # StarChannel
       THEN LET entry == StarEntry(s.entry)
            IN logWriterForChannel(p, StarChannel,
                 [s EXCEPT !.entry = entry, !.channel = StarChannel,
                           !.pc = "addChange",
                           !.item = AppendEntry(entry, s.parentRevID)])
       ELSE /\ prod' = [prod EXCEPT ![p].pc = "returned"]
            /\ UNCHANGED <<lock, logWriters, writers>>
  /\ UNCHANGED <<config, bucket, cp, calls, extWrites, crashed, failed>>

\* The send c.io <- item of addChange and addChannelLog: it blocks while io
\* is full, and panics if io has been closed.
Send(p, after) ==
  LET s == prod[p]
      c == writers[s.writer]
  IN
  IF c.closed
    THEN /\ crashed' = TRUE
         /\ UNCHANGED <<writers, prod>>
    ELSE /\ Len(c.io) < kChannelLogWriterQueueLength
         /\ writers' = [writers EXCEPT ![s.writer].io = Append(c.io, s.item),
                          ![s.writer].unhanded = Append(c.unhanded, s.item)]
         /\ prod' = [prod EXCEPT ![p].pc = after,
                       ![p].enq = Append(s.enq, <<s.channel, s.item>>)]
         /\ UNCHANGED crashed

\* addChange: queues a change to be written to the channel's log.
addChange(p) ==
  /\ ~crashed
  /\ prod[p].pc = "addChange"
  /\ Send(p, "range")
  /\ UNCHANGED <<config, bucket, lock, logWriters, cp, calls, extWrites, failed>>

\* addChangeLog: looks the channel's writer up to queue a seed.
addChangeLog(p, chans, logs) ==
  /\ ~crashed
  /\ prod[p].pc = "idle"
  /\ calls < MaxCalls
  /\ \E channel \in chans, log \in logs :
       logWriterForChannel(p, channel,
         [IdleProducer EXCEPT !.pc = "addChannelLog", !.channel = channel,
                              !.item = SeedEntry(log)])
  /\ calls' = calls + 1
  /\ UNCHANGED <<config, bucket, cp, extWrites, crashed, failed>>

\* addChannelLog: queues an entire channel log to be written.
addChannelLog(p) ==
  /\ ~crashed
  /\ prod[p].pc = "addChannelLog"
  /\ Send(p, "returned")
  /\ UNCHANGED <<config, bucket, lock, logWriters, cp, calls, extWrites, failed>>

\* A getChangeLog that returns the decoded log as it is stored.
getChangeLogResultUnfiltered(raw, afterSeq, getErr) ==
  IF getErr THEN [log |-> NilLog, err |-> TRUE]
  ELSE [log |-> decodeChannelLog(raw), err |-> FALSE]

\* What getChangeLog returns when GetRaw gives this document: the decoded
\* log filtered after afterSeq; a nil log and no error if there is none; a
\* nil log and the error if GetRaw fails otherwise (getErr).
getChangeLogResult(raw, afterSeq, getErr) ==
  IF getErr THEN [log |-> NilLog, err |-> TRUE]
  ELSE IF raw # NoDoc
    THEN [log |-> FilterAfter(decodeChannelLog(raw), afterSeq), err |-> FALSE]
    ELSE [log |-> NilLog, err |-> FALSE]

\* getChangeLog: loads a channel's log from the bucket and returns it.
getChangeLog(p) ==
  /\ ~crashed
  /\ prod[p].pc = "idle"
  /\ \E channelName \in AllChannels, afterSeq \in 0..MaxSeq, getErr \in BOOLEAN :
       LET raw == bucket[channelLogDocID(channelName)]
           r == getChangeLogResult(raw, afterSeq, getErr)
       IN prod' = [prod EXCEPT ![p] =
                     [IdleProducer EXCEPT !.pc = "gotLog", !.channel = channelName,
                        !.afterSeq = afterSeq, !.log = r.log, !.err = r.err,
                        !.raw = raw, !.getErr = getErr]]
  /\ UNCHANGED <<config, bucket, lock, logWriters, writers, cp, calls, extWrites, crashed, failed>>

\* The caller goes on after a call has returned.
Return(p) ==
  /\ ~crashed
  /\ prod[p].pc \in {"returned", "gotLog"}
  /\ prod' = [prod EXCEPT ![p] = IdleProducer]
  /\ UNCHANGED <<config, bucket, lock, logWriters, writers, cp, calls, extWrites, crashed, failed>>

(***************************************************************************)
(* checkpoint and stop.                                                    *)
(***************************************************************************)
\* The appends sent to writer w that no WriteUpdate has written or given up.
Uncommitted(w) ==
  {<<writers[w].channelName, it.logEntry>> :
     it \in {writers[w].io[i] : i \in 1..Len(writers[w].io)}
              \cup {writers[w].entries[i] : i \in 1..Len(writers[w].entries)}}
    \ {<<writers[w].channelName, NilEntry>>}

\* checkpoint takes the lock and starts to range over logWriters.
checkpoint ==
  /\ ~crashed
  /\ cp.pc = "idle"
  /\ cp.count < MaxCheckpoints
  /\ lock = NoThread
  /\ lock' = CheckpointThread
  /\ cp' = [cp EXCEPT !.pc = "range",
              !.todo = {logWriters[c] : c \in AllChannels} \ {0},
              !.all = {logWriters[c] : c \in AllChannels} \ {0},
              !.count = cp.count + 1,
              !.snap = UNION {Uncommitted(logWriters[c]) :
                                c \in {d \in AllChannels : logWriters[d] # 0}}]
  /\ UNCHANGED <<config, bucket, logWriters, writers, prod, calls, extWrites, crashed, failed>>

\* stop, first statement: close(c.io), for the next writer of the range.
stop(w) ==
  /\ ~crashed
  /\ cp.pc = "range"
  /\ w \in cp.todo
  /\ writers' = [writers EXCEPT ![w].closed = TRUE, ![w].atClose = (writers[w].io # <<>>)]
  /\ cp' = [cp EXCEPT !.pc = "stop", !.cur = w]
  /\ UNCHANGED <<config, bucket, lock, logWriters, prod, calls, extWrites, crashed, failed>>

\* A stop that does not wait for the goroutine.
stopReturnsAtOnce ==
  /\ ~crashed
  /\ cp.pc = "stop"
  /\ cp' = [cp EXCEPT !.pc = "range", !.todo = cp.todo \ {cp.cur}, !.cur = 0]
  /\ UNCHANGED <<config, bucket, lock, logWriters, writers, prod, calls, extWrites, crashed, failed>>

\* stop, second statement: <-c.awake blocks until the goroutine has finished.
stopReturns ==
  /\ ~crashed
  /\ cp.pc = "stop"
  /\ writers[cp.cur].awake
  /\ cp' = [cp EXCEPT !.pc = "range", !.todo = cp.todo \ {cp.cur}, !.cur = 0]
  /\ UNCHANGED <<config, bucket, lock, logWriters, writers, prod, calls, extWrites, crashed, failed>>

\* checkpoint after the range: the registry is emptied and the deferred
\* Unlock runs.
checkpointReturns ==
  /\ ~crashed
  /\ cp.pc = "range"
  /\ cp.todo = {}
  /\ logWriters' = [c \in AllChannels |-> 0]
  /\ lock' = NoThread
  /\ cp' = [cp EXCEPT !.pc = "returned"]
  /\ UNCHANGED <<config, bucket, writers, prod, calls, extWrites, crashed, failed>>

\* The caller of checkpoint goes on.
checkpointDone ==
  /\ ~crashed
  /\ cp.pc = "returned"
  /\ cp' = [IdleCheckpoint EXCEPT !.count = cp.count]
  /\ UNCHANGED <<config, bucket, lock, logWriters, writers, prod, calls, extWrites, crashed, failed>>

(***************************************************************************)
(* Writers outside this process, which the log documents are shared with.  *)
(***************************************************************************)
\* Another writer appends an entry to a channel's log, or creates it.
ExternalWrite(chans) ==
  /\ ~crashed
  /\ extWrites < MaxExternalWrites
  /\ \E channel \in chans, seq \in Sequences_ :
       LET key == channelLogDocID(channel)
           e == LogEntry(seq, 1, 1, 0)
       IN bucket' = [bucket EXCEPT ![key] =
            IF bucket[key] = NoDoc
              THEN encodeChannelLog(ChangeLogAdd(EmptyChangeLog, e))
              ELSE bucket[key] \o EncodeEntry(e, 0)]
  /\ extWrites' = extWrites + 1
  /\ UNCHANGED <<config, lock, logWriters, writers, prod, cp, calls, crashed, failed>>

(***************************************************************************)
(* The specifications.                                                     *)
(***************************************************************************)
\* The calls of the main specification: changes of channel A without
\* removals, and seeds of channel A with one entry, with entries 1..MaxSeq
\* in order, and with two entries out of order.
MainMaps == {[c \in {"A"} |-> NoRemoval]}
MainSeedLogs ==
  {l \in SeedLogs :
     l \in {SeedLogOf(<<1>>), SeedLogOf([i \in 1..MaxSeq |-> i]),
            SeedLogOf(<<MaxSeq, 1>>)}}

\* The steps of a writer's goroutine that read and commit appends (the store
\* of a received seed, addChangeLog_AddRaw, is listed by the specifications
\* in which seeds are sent).
WriterStep ==
  \/ \E w \in Writers : readChange_(w)
  \/ \E w \in Writers : readChanges_(w)
  \/ \E w \in Writers : addToChangeLog_(w)
  \/ \E w \in Writers : WriteUpdate(w)

CheckpointStep ==
  \/ checkpoint
  \/ \E w \in Writers : stop(w)
  \/ stopReturns
  \/ checkpointReturns
  \/ checkpointDone

\* The main specification: a database without the "*" log; one producer
\* writing changes and seeds of channel A, the writer's goroutine, store
\* failures and checkpoint.
Idle == [p \in Producers |-> IdleProducer]

Init == Start(EmptyBucket, Idle) /\ ~EnableStarChannelLog

Next ==
  \/ \E p \in Producers : addToChangeLogsCall(p, MainMaps, {0})
  \/ \E p \in Producers : addToChangeLogs(p)
  \/ \E p \in Producers : addToChangeLogsStar(p)
  \/ \E p \in Producers : addChange(p)
  \/ \E p \in Producers : addChangeLog(p, {"A"}, MainSeedLogs)
  \/ \E p \in Producers : addChannelLog(p)
  \/ \E p \in Producers : Return(p)
  \/ WriterStep
  \/ \E w \in Writers : addChangeLog_AddRaw(w)
  \/ \E w \in Writers : WriteUpdateFails(w)
  \/ CheckpointStep

Spec == Init /\ [][Next]_vars

\* The fan-out specification: one call of addToChangeLogs with any membership
\* map, entry and flags, under any configuration, with the writers'
\* goroutines running beside it.
InitFanOut ==
  \E channelMap \in ChannelMaps, seq \in Sequences_, doc \in DocIDs,
     rev \in RevIDs, flags \in InputFlags, parent \in ParentRevIDs :
    Start(EmptyBucket,
          [p \in Producers |->
             Entered(channelMap, LogEntry(seq, doc, rev, flags), parent)])

NextFanOut ==
  \/ \E p \in Producers : addToChangeLogs(p)
  \/ \E p \in Producers : addToChangeLogsStar(p)
  \/ \E p \in Producers : addChange(p)
  \/ \E p \in Producers : Return(p)
  \/ WriterStep

SpecFanOut == InitFanOut /\ [][NextFanOut]_vars

\* The sequence numbers of the entries of a channel's stored log, in order.
StoredSeqs(channelName) ==
  LET raw == bucket[channelLogDocID(channelName)]
  IN IF raw = NoDoc THEN <<>>
     ELSE [i \in 1..NumEncoded(raw) |-> EncodedEntry(raw, i).Sequence]

\* Sequences of at most n elements of S, and those in non-decreasing order.
SeqsOver(S, n) == UNION {[1..k -> S] : k \in 0..n}
SortedSeqsOver(S, n) ==
  {q \in SeqsOver(S, n) : \A i, j \in 1..Len(q) : i < j => q[i] <= q[j]}

\* The encoded log with entries of these sequence numbers.
DocOf(q) ==
  encodeChannelLog([Since |-> 0,
                    Entries |-> [i \in 1..Len(q) |-> LogEntry(q[i], 1, 1, 0)]])

\* The documents the commit and the read specifications start with: none,
\* or a log of up to MaxDocEntries entries (in order, or in any order).
CommitDocs == {NoDoc} \cup {DocOf(q) : q \in SortedSeqsOver(Sequences_, MaxDocEntries)}
ReadDocs == {NoDoc} \cup {DocOf(q) : q \in SeqsOver(Sequences_, MaxDocEntries)}

\* The batch with entries of these sequence numbers, each of a document of
\* its own (the i-th arrival is of document i).
BatchOf(q) == [i \in 1..Len(q) |-> AppendEntry(LogEntry(q[i], i, 1, 0), 0)]

\* The commit specification: a writer of channel A that has read a batch, in
\* any order, from its io; it sorts the batch and calls addToChangeLog_ on a
\* document of any content, with external writers and store failures.
InitCommit ==
  /\ EnableStarChannelLog = FALSE
  /\ AlwaysCompactChangeLog \in BOOLEAN
  /\ bucket \in {BucketWith(d) : d \in CommitDocs}
  /\ lock = NoThread
  /\ logWriters = [c \in AllChannels |-> IF c = "A" THEN 1 ELSE 0]
  /\ \E q \in SeqsOver(Sequences_, kChannelLogWriterQueueLength) \ {<<>>} :
       writers = <<[newChannelLogWriter("A") EXCEPT
                      !.pc = "readMore", !.entries = BatchOf(q),
                      !.unhanded = BatchOf(q)]>>
  /\ prod = [p \in Producers |-> IdleProducer]
  /\ cp = IdleCheckpoint
  /\ calls = 0
  /\ extWrites = 0
  /\ crashed = FALSE
  /\ failed = FALSE

NextCommit ==
  \/ \E w \in Writers : readChanges_(w)
  \/ \E w \in Writers : addToChangeLog_(w)
  \/ \E w \in Writers : WriteUpdate(w)
  \/ \E w \in Writers : WriteUpdateFails(w)
  \/ ExternalWrite({"A"})

SpecCommit == InitCommit /\ [][NextCommit]_vars

\* The pending writes a full io may hold: appends and seeds in any order.
DrainItems ==
  {AppendEntry(LogEntry(seq, 1, 1, 0), 0) : seq \in Sequences_}
    \cup {SeedEntry(l) : l \in MainSeedLogs}

\* The drain specification: the writer of channel A with an io of any
\* content, up to full, and a producer that sends more appends while the
\* writer drains it.
InitDrain ==
  /\ EnableStarChannelLog = FALSE
  /\ AlwaysCompactChangeLog = FALSE
  /\ bucket = EmptyBucket
  /\ lock = NoThread
  /\ logWriters = [c \in AllChannels |-> IF c = "A" THEN 1 ELSE 0]
  /\ \E q \in SeqsOver(DrainItems, kChannelLogWriterQueueLength) :
       writers = <<[newChannelLogWriter("A") EXCEPT !.io = q, !.unhanded = q]>>
  /\ prod = Idle
  /\ cp = IdleCheckpoint
  /\ calls = 0
  /\ extWrites = 0
  /\ crashed = FALSE
  /\ failed = FALSE

NextDrain ==
  \/ \E p \in Producers : addToChangeLogsCall(p, MainMaps, {0})
  \/ \E p \in Producers : addToChangeLogs(p)
  \/ \E p \in Producers : addToChangeLogsStar(p)
  \/ \E p \in Producers : addChange(p)
  \/ \E p \in Producers : Return(p)
  \/ WriterStep
  \/ \E w \in Writers : addChangeLog_AddRaw(w)

SpecDrain == InitDrain /\ [][NextDrain]_vars

\* The highest sequence among the entries of channel A that are stored,
\* waiting in an io or in a writer's batch (0 if there is none).
HighestSeen ==
  LET queued(w) == {writers[w].io[i].logEntry.Sequence : i \in 1..Len(writers[w].io)}
                     \cup {writers[w].entries[i].logEntry.Sequence :
                              i \in 1..Len(writers[w].entries)}
      stored == {StoredSeqs("A")[i] : i \in 1..Len(StoredSeqs("A"))}
  IN Max({0} \cup stored \cup UNION {queued(w) : w \in Writers})

\* The ordered specification: as the main one, without seeds, and with a
\* producer that submits its changes in non-decreasing Sequence order.
NextOrdered ==
  \/ \E p \in Producers :
       /\ addToChangeLogsCall(p, MainMaps, {0})
       /\ prod'[p].arg.Sequence >= HighestSeen
  \/ \E p \in Producers : addToChangeLogs(p)
  \/ \E p \in Producers : addToChangeLogsStar(p)
  \/ \E p \in Producers : addChange(p)
  \/ \E p \in Producers : Return(p)
  \/ WriterStep
  \/ \E w \in Writers : WriteUpdateFails(w)
  \/ CheckpointStep

SpecOrdered == Init /\ [][NextOrdered]_vars

\* The read specification: getChangeLog on documents of any content.
InitRead ==
  /\ \E d \in ReadDocs : Start(BucketWith(d), Idle)
  /\ ~EnableStarChannelLog /\ ~AlwaysCompactChangeLog

NextRead ==
  \/ \E p \in Producers : getChangeLog(p)
  \/ \E p \in Producers : Return(p)

SpecRead == InitRead /\ [][NextRead]_vars

(***************************************************************************)
(* Properties.                                                             *)
(***************************************************************************)
\* The entries decoded from the stored log of a channel.
StoredEntries(channelName) ==
  LET raw == bucket[channelLogDocID(channelName)]
  IN IF raw = NoDoc THEN <<>> ELSE DecodeChangeLog(raw).Entries

IsSorted(es) ==
  \A i, j \in 1..Len(es) : i < j => es[i].Sequence <= es[j].Sequence

\* No entry of a batch that a writer of the channel is about to write has a
\* Sequence below one of an entry already stored.
BatchNotBelowStored(channelName) ==
  \A w \in Writers :
    (writers[w].channelName = channelName /\ writers[w].pc = "write")
      => \A i \in 1..Len(writers[w].batch), j \in 1..Len(StoredEntries(channelName)) :
           StoredEntries(channelName)[j].Sequence
             <= writers[w].batch[i].logEntry.Sequence

\* C1 as stated: in every reachable state the entries decoded from every
\* channel's stored log are in non-decreasing Sequence order.
C1_AlwaysSorted == \A c \in AllChannels : IsSorted(StoredEntries(c))

\* The entries of a seed that a writer of the channel has received and is
\* about to pass to AddRaw are in non-decreasing Sequence order.
SeedInOrder(channelName) ==
  \A w \in Writers :
    (writers[w].channelName = channelName /\ writers[w].seed # NilLog)
      => IsSorted(writers[w].seed.Entries)

\* C1 as amended: a step keeps a channel's stored log in non-decreasing
\* Sequence order if no entry of the batch being written has a Sequence below
\* one already stored and the seed being stored, if any, has its entries in
\* order (batches are sorted; the log across batches and a seed are not).
C1_SortedUnlessBatchBelowStored ==
  [][\A c \in AllChannels :
       (IsSorted(StoredEntries(c)) /\ BatchNotBelowStored(c) /\ SeedInOrder(c))
         => IsSorted(StoredEntries(c))']_vars

\* A seed with entries out of order has been stored as the channel's log.
C1_UnsortedSeedStored ==
  \E c \in AllChannels, l \in MainSeedLogs :
    /\ ~IsSorted(l.Entries)
    /\ bucket[channelLogDocID(c)] = encodeChannelLog(l)

\* C1's case: a batch is about to be appended to a stored log that holds
\* two entries of different sequences, none above the batch's.
C1_Witness ==
  \E w \in Writers :
    /\ writers[w].pc = "write"
    /\ Len(StoredEntries(writers[w].channelName)) >= 2
    /\ StoredEntries(writers[w].channelName)[1].Sequence
         < StoredEntries(writers[w].channelName)[2].Sequence
    /\ NumEncoded(writers[w].newValue) > Len(writers[w].batch)
    /\ BatchNotBelowStored(writers[w].channelName)

\* The writers checkpoint has stopped so far: stop has returned for them.
Stopped == cp.all \ cp.todo

\* C2 as stated (for runs in which no store write failed): when checkpoint
\* returns, every append that was enqueued and not yet written when it was
\* called is in its channel's stored document.
C2_NoLostUpdates ==
  (cp.pc = "returned" /\ ~failed)
    => \A x \in cp.snap :
         \E i \in 1..Len(StoredEntries(x[1])) : StoredEntries(x[1])[i] = x[2]

\* C2 as amended: when checkpoint returns, every writer registered when it
\* was called has exited with its mailbox empty, and every pending write
\* sent to it has been handed to a store write that has returned.
C2_CheckpointDrains ==
  cp.pc = "returned"
    => \A w \in cp.all :
         /\ writers[w].awake /\ writers[w].pc = "exited"
         /\ writers[w].io = <<>> /\ writers[w].entries = <<>>
         /\ writers[w].unhanded = <<>>
         /\ Uncommitted(w) = {}

\* C2's case: checkpoint has returned, and appends were waiting to be
\* written when it was called.
C2_Witness == cp.pc = "returned" /\ cp.snap # {} /\ ~failed

\* C9: a writer closes awake, and stop returns, only once every pending
\* write sent to the writer has been taken from io and handed to a store
\* write (AddRaw or WriteUpdate) that has returned.
C9_StopDrains ==
  \A w \in Writers :
    /\ writers[w].awake
         => /\ writers[w].closed /\ writers[w].pc = "exited"
            /\ writers[w].unhanded = <<>>
            /\ writers[w].io = <<>> /\ writers[w].entries = <<>>
            /\ writers[w].seed = NilLog
    /\ w \in Stopped => writers[w].awake

\* C9's case: stop has returned for a writer whose io held pending writes
\* when stop closed it.
C9_Witness ==
  \E w \in Writers : w \in Stopped /\ writers[w].awake /\ writers[w].atClose

\* C10 as stated: no thread holds the registry lock while a writer is
\* draining its mailbox or committing to the store.
C10_LockNotHeldDuringDrain ==
  lock # NoThread
    => \A w \in Writers : writers[w].pc \notin {"readMore", "update", "write"}

\* A writer receives a seed from the head of its io in this step.
SeedTaken(w) ==
  /\ w \in Writers
  /\ writers[w].seed = NilLog
  /\ writers'[w].seed # NilLog

\* A writer's call of addChangeLog_ on the seed it received returns in this
\* step.
SeedProcessed(w) ==
  /\ w \in Writers
  /\ writers[w].seed # NilLog
  /\ writers'[w].seed = NilLog

\* C6: the step in which a writer processes a seed leaves the bucket as it
\* is if the channel has a log document at that moment, and stores the
\* encoded seed if not; receiving the seed from io changes no document.
C6_SeedNeverOverwrites ==
  [][\A w \in Writers :
       /\ SeedTaken(w)
            => /\ bucket' = bucket
               /\ writers[w].io # <<>>
               /\ writers'[w].seed = Head(writers[w].io).replacementLog
       /\ SeedProcessed(w)
            => LET key == channelLogDocID(writers[w].channelName)
               IN bucket' = IF bucket[key] # NoDoc THEN bucket
                            ELSE [bucket EXCEPT ![key] =
                                    <<writers[w].seed.Since>>
                                      \o EncodeLogEntries(writers[w].seed.Entries)]]_vars

\* C6's case: a writer has received a seed and is about to process it while
\* its channel already has a log document with other content.
C6_Witness ==
  \E w \in Writers :
    /\ writers[w].seed # NilLog
    /\ writers[w].pc \in {"readChange", "readMore"}
    /\ StoredEntries(writers[w].channelName) # <<>>
    /\ StoredEntries(writers[w].channelName) # writers[w].seed.Entries

\* The pending writes a caller has sent to a channel during its call.
SentTo(p, channel) ==
  {i \in 1..Len(prod[p].enq) : prod[p].enq[i][1] = channel}

\* Flags without the Removed bit, by arithmetic on the bits.
WithoutRemovedBit(flags) ==
  (flags \div (2 * Removed)) * (2 * Removed) + (flags % Removed)

\* C3: every entry addToChangeLogs has sent to a channel of the membership
\* map has Removed set if the channel carries a removal marker (of the
\* entry's sequence) and cleared if it carries none; its other flags and
\* fields are the caller's.
C3_RemovedOnlyForRemovedChannel ==
  \A p \in Producers : \A i \in 1..Len(prod[p].enq) :
    LET channel == prod[p].enq[i][1]
        sent == prod[p].enq[i][2].logEntry
        arg == prod[p].arg
    IN channel \in DOMAIN prod[p].channelMap
         => /\ prod[p].channelMap[channel] = NoRemoval
                 => sent = [arg EXCEPT !.Flags = WithoutRemovedBit(arg.Flags)]
            /\ prod[p].channelMap[channel] # NoRemoval
                 => /\ prod[p].channelMap[channel] = arg.Sequence
                    /\ sent = [arg EXCEPT !.Flags =
                                 WithoutRemovedBit(arg.Flags) + Removed]

\* C3's case: a call whose entry came with Removed set has sent it to a
\* channel with a removal marker and to a channel without one.
C3_Witness ==
  \E p \in Producers :
    /\ prod[p].pc = "returned"
    /\ HasRemoved(prod[p].arg.Flags)
    /\ \E c1, c2 \in DOMAIN prod[p].channelMap :
         /\ prod[p].channelMap[c1] # NoRemoval /\ SentTo(p, c1) # {}
         /\ prod[p].channelMap[c2] = NoRemoval /\ SentTo(p, c2) # {}

\* C4: with EnableStarChannelLog, a call of addToChangeLogs that has
\* returned has sent its change to the "*" channel exactly once, with
\* Removed cleared and everything else as the caller passed it.
C4_StarGetsEveryChange ==
  \A p \in Producers :
    (prod[p].pc = "returned" /\ EnableStarChannelLog)
      => /\ Cardinality(SentTo(p, StarChannel)) = 1
         /\ \A i \in SentTo(p, StarChannel) :
              /\ prod[p].enq[i][2].logEntry =
                   [prod[p].arg EXCEPT !.Flags = WithoutRemovedBit(prod[p].arg.Flags)]
              /\ prod[p].enq[i][2].parentRevID = prod[p].parentRevID
              /\ \E w \in Writers : writers[w].channelName = StarChannel

\* C4's case: a returned call, "*" enabled, whose entry came with Removed
\* set and whose channels all carry removal markers, matching and stale.
C4_Witness ==
  \E p \in Producers :
    /\ prod[p].pc = "returned" /\ EnableStarChannelLog
    /\ HasRemoved(prod[p].arg.Flags)
    /\ DOMAIN prod[p].channelMap = Channels
    /\ \A c \in Channels : prod[p].channelMap[c] # NoRemoval
    /\ \E c \in Channels : prod[p].channelMap[c] = prod[p].arg.Sequence
    /\ \E c \in Channels : prod[p].channelMap[c] # prod[p].arg.Sequence

\* C5: a call of addToChangeLogs that has returned has sent no pending write
\* to a channel whose removal marker is of another sequence, and exactly one
\* to every other channel of the membership map.
C5_StaleRemovalSkipped ==
  \A p \in Producers :
    prod[p].pc = "returned"
      => \A channel \in DOMAIN prod[p].channelMap :
           Cardinality(SentTo(p, channel)) =
             IF /\ prod[p].channelMap[channel] # NoRemoval
                /\ prod[p].channelMap[channel] # prod[p].arg.Sequence
               THEN 0 ELSE 1

\* C5's case: a returned call with a channel of a stale marker, one of a
\* matching marker and so one of each count.
C5_Witness ==
  \E p \in Producers :
    /\ prod[p].pc = "returned"
    /\ \E c1, c2 \in DOMAIN prod[p].channelMap :
         /\ prod[p].channelMap[c1] \notin {NoRemoval, prod[p].arg.Sequence}
         /\ SentTo(p, c1) = {}
         /\ prod[p].channelMap[c2] = prod[p].arg.Sequence
         /\ Cardinality(SentTo(p, c2)) = 1

\* The step is a store write of writer w that succeeded.
Committed(w) ==
  /\ w \in Writers
  /\ writers[w].pc = "write"
  /\ writers'[w].pc = "readChange"
  /\ ~writers'[w].err

\* C7: a commit of a batch longer than MaxChangeLogLength stores a log of
\* exactly MaxChangeLogLength entries, the last of the sorted batch; every
\* entry of the batch left out has a sequence no higher than any entry kept,
\* and nothing of the previous document remains. The same after retries.
C7_CaseAKeepsNewest ==
  [][\A w \in Writers :
       (Committed(w) /\ Len(writers[w].batch) > MaxChangeLogLength)
         => LET batch == writers[w].batch
                dropped == Len(batch) - MaxChangeLogLength
                stored == DecodeChangeLog(
                            bucket'[channelLogDocID(writers[w].channelName)]).Entries
            IN /\ Len(stored) = MaxChangeLogLength
               /\ \A i \in 1..MaxChangeLogLength :
                    stored[i] = batch[dropped + i].logEntry
               /\ \A i \in 1..dropped, j \in 1..MaxChangeLogLength :
                    batch[i].logEntry.Sequence <= stored[j].Sequence]_vars

\* C7's case: the callback runs again, on a document with entries that an
\* external writer changed, for a batch it has already trimmed.
C7_Witness ==
  \E w \in Writers :
    /\ writers[w].pc = "update"
    /\ Len(writers[w].batch) > MaxChangeLogLength
    /\ Len(writers[w].entries) = MaxChangeLogLength
    /\ StoredEntries(writers[w].channelName) # <<>>
    /\ writers[w].batch[1].logEntry.Sequence
         < writers[w].batch[Len(writers[w].batch)].logEntry.Sequence

\* The entries of es with a sequence above afterSeq, in the order of es.
EntriesAfter(es, afterSeq) ==
  LET Above(e) == e.Sequence > afterSeq IN SelectSeq(es, Above)

\* C8: a getChangeLog that has returned without a store error gives, for a
\* channel with a stored document, exactly the stored entries with Sequence
\* > afterSeq in stored order; for a channel with none, a nil log and no
\* error; the stored document is the one it read.
C8_GetChangeLogFilters ==
  \A p \in Producers :
    (prod[p].pc = "gotLog" /\ ~prod[p].getErr)
      => LET stored == bucket[channelLogDocID(prod[p].channel)]
         IN /\ prod[p].raw = stored
            /\ ~prod[p].err
            /\ IF stored = NoDoc
                 THEN prod[p].log = NilLog
                 ELSE /\ prod[p].log # NilLog
                      /\ prod[p].log.Entries =
                           EntriesAfter(DecodeChangeLog(stored).Entries,
                                        prod[p].afterSeq)

\* C8's case: getChangeLog has returned some of the entries of a stored
\* log and left others out.
C8_Witness ==
  \E p \in Producers :
    /\ prod[p].pc = "gotLog" /\ ~prod[p].getErr
    /\ prod[p].log.Entries # <<>>
    /\ Len(prod[p].log.Entries) < Len(StoredEntries(prod[p].channel))

\* The sequence numbers of a batch of pending writes, in its order.
SeqsOf(batch) == [i \in 1..Len(batch) |-> batch[i].logEntry.Sequence]

\* Two sequences hold the same elements the same number of times.
SameElements(s, t) ==
  /\ Len(s) = Len(t)
  /\ \A i \in 1..Len(s) :
       Cardinality({k \in 1..Len(s) : s[k] = s[i]})
         = Cardinality({k \in 1..Len(t) : t[k] = s[i]})

\* The last n entries of the log a raw value decodes to.
LastStored(raw, n) ==
  LET es == DecodeChangeLog(raw).Entries
  IN SubSeq(es, Len(es) - n + 1, Len(es))

\* C11: the batch a writer hands to addToChangeLog_ holds the entries it read
\* from io, whatever their order of arrival, in ascending Sequence order, and
\* the value the commit writes ends with the entries it keeps of the batch
\* in that order.
C11_BatchSorted ==
  \A w \in Writers :
    writers[w].pc \in {"update", "write"}
      => /\ SameElements(writers[w].batch, writers[w].arrived)
         /\ \A i, j \in 1..Len(writers[w].batch) :
              i < j => SeqsOf(writers[w].batch)[i] <= SeqsOf(writers[w].batch)[j]
         /\ writers[w].pc = "write"
              => /\ Len(writers[w].entries) <= NumEncoded(writers[w].newValue)
                 /\ LastStored(writers[w].newValue, Len(writers[w].entries))
                      = [i \in 1..Len(writers[w].entries) |->
                           writers[w].entries[i].logEntry]
                 /\ \A i, j \in 1..Len(writers[w].entries) :
                      i < j => SeqsOf(writers[w].entries)[i]
                                 <= SeqsOf(writers[w].entries)[j]

\* C11's case: entries of sequences 3, 1, 2 read together for a channel
\* without a log are being committed as 1, 2, 3.
C11_Witness ==
  \E w \in Writers :
    /\ writers[w].pc = "write"
    /\ writers[w].currentValue = NoDoc
    /\ SeqsOf(writers[w].arrived) = <<3, 1, 2>>
    /\ SeqsOf(writers[w].batch) = <<1, 2, 3>>

\* The place of a pending write of the batch in the order of arrival.
ArrivalOf(w, item) ==
  CHOOSE k \in 1..Len(writers[w].arrived) : writers[w].arrived[k] = item

\* C12 as stated: entries of equal Sequence are in the batch handed to
\* addToChangeLog_ in the order in which they arrived.
C12_SortStable ==
  \A w \in Writers :
    writers[w].pc \in {"update", "write"}
      => \A i, j \in 1..Len(writers[w].batch) :
           (/\ i < j
            /\ writers[w].batch[i].logEntry.Sequence
                 = writers[w].batch[j].logEntry.Sequence)
             => ArrivalOf(w, writers[w].batch[i]) <= ArrivalOf(w, writers[w].batch[j])

\* The step in which addToChangeLog_ of writer w returns an error.
CommitFailed(w) ==
  /\ w \in Writers
  /\ writers[w].pc \in {"update", "write"}
  /\ writers'[w].pc \notin {"update", "write"}
  /\ writers'[w].err

\* C13: when WriteUpdate fails for a batch, the stored documents are left as
\* they were, the goroutine goes on to read the next changes (it neither
\* exits nor closes awake), and the batch is dropped: it is neither kept in
\* the writer nor put back into io.
C13_FailedBatchDropped ==
  [][\A w \in Writers :
       CommitFailed(w)
         => /\ bucket' = bucket
            /\ writers'[w].pc = "readChange"
            /\ ~writers'[w].awake
            /\ writers'[w].entries = <<>>
            /\ writers'[w].io = writers[w].io
            /\ writers'[w].closed = writers[w].closed]_vars

\* C13's case: a writer whose last commit failed is committing the next
\* batch, to a document that lacks the entries of the failed one.
C13_Witness ==
  \E w \in Writers :
    /\ writers[w].err
    /\ writers[w].pc = "write"
    /\ writers[w].batch # <<>>
    /\ StoredEntries(writers[w].channelName) = <<>>

\* C14: the value a commit is about to write, after any number of
\* invocations of the callback, is one that a single invocation on the
\* document value last read and the sorted batch as first passed could
\* have returned.
C14_CallbackIdempotent ==
  \A w \in Writers :
    writers[w].pc = "write"
      => \E r \in UpdateCallback(CurrentValue(writers[w].currentValue),
                                 writers[w].batch) :
           r.value = writers[w].newValue

\* C14's case: the callback has run a second time, on another document
\* value, for a batch that its first run trimmed.
C14_Witness ==
  \E w \in Writers :
    /\ writers[w].pc = "write"
    /\ writers[w].attempts >= 2
    /\ Len(writers[w].entries) < Len(writers[w].batch)
    /\ writers[w].currentValue # NoDoc

\* C15 as stated: no caller sends a pending write to an io that stop has
\* closed (the send panics).
C15_NoSendOnClosed == ~crashed

\* The goroutine of writer w has not finished.
Live(w) == writers[w].pc # "exited"

\* C16: no two writers of one channel have live goroutines at the same time.
C16_OneLiveWriterPerChannel ==
  \A w1, w2 \in Writers :
    (w1 # w2 /\ writers[w1].channelName = writers[w2].channelName)
      => ~(Live(w1) /\ Live(w2))

\* C16's case: after a checkpoint a second writer has been created for a
\* channel whose first writer had pending writes when it was stopped.
C16_Witness ==
  \E w1, w2 \in Writers :
    /\ w1 # w2
    /\ writers[w1].channelName = writers[w2].channelName
    /\ ~Live(w1) /\ writers[w1].atClose
    /\ Live(w2) /\ writers[w2].pc \in {"update", "write"}

\* Writer w's commit is on the append path: the document is not empty, the
\* batch is shorter than MaxChangeLogLength, and no entries were truncated.
OnAppendPath(w) ==
  /\ writers[w].currentValue # NoDoc
  /\ Len(writers[w].currentValue) > 0
  /\ MaxChangeLogLength - Len(writers[w].batch) > 0
  /\ ~writers[w].fullUpdate \/ writers[w].removedCount = 0

\* C17: a commit on the append path leaves the document as it was right
\* before the write, whoever wrote it last, with the encoded batch appended.
C17_AppendKeepsCurrent ==
  [][\A w \in Writers :
       (Committed(w) /\ OnAppendPath(w))
         => LET key == channelLogDocID(writers[w].channelName)
            IN /\ bucket[key] # NoDoc
               /\ bucket'[key] = bucket[key] \o EncodeEntries(writers[w].batch)
               /\ \A k \in DocKeys \ {key} : bucket'[k] = bucket[k]]_vars

\* C17's case: a commit on the append path is about to succeed on a document
\* that an external writer changed after the writer first read it.
C17_Witness ==
  \E w \in Writers :
    /\ writers[w].pc = "write"
    /\ writers[w].attempts >= 2
    /\ OnAppendPath(w)
    /\ extWrites > 0
    /\ bucket[channelLogDocID(writers[w].channelName)] = writers[w].currentValue

\* No pending write of the sequence carries a replacement log.
OnlyAppends(items) ==
  \A i \in 1..Len(items) :
    items[i].replacementLog = NilLog /\ items[i].logEntry # NilEntry

\* The seed a writer has received and not yet passed to AddRaw, as the
\* pending write it was sent as.
SeedInHand(w) ==
  IF writers[w].seed = NilLog THEN <<>> ELSE <<SeedEntry(writers[w].seed)>>

\* C18: a writer's batch never holds a seed and never more than
\* kChannelLogWriterQueueLength appends; while the writer reads, the batch,
\* the seed it has just received (if any) and io are what was sent and not
\* yet handled, in the order sent (so a seed taken from io is handled before
\* the writer receives anything else, every earlier seed has been handled,
\* and the batch is in the order of io); the batch sorted afterwards is
\* that batch.
C18_SeedsInlineBatchBounded ==
  \A w \in Writers :
    /\ OnlyAppends(writers[w].entries)
    /\ OnlyAppends(writers[w].batch)
    /\ OnlyAppends(writers[w].arrived)
    /\ Len(writers[w].entries) <= kChannelLogWriterQueueLength
    /\ Len(writers[w].arrived) <= kChannelLogWriterQueueLength
    /\ writers[w].pc \in {"readChange", "readMore"}
         => writers[w].unhanded
              = writers[w].entries \o SeedInHand(w) \o writers[w].io
    /\ writers[w].pc \in {"update", "write", "exited"}
         => writers[w].seed = NilLog
    /\ writers[w].pc \in {"update", "write"}
         => /\ writers[w].unhanded = writers[w].io
            /\ SameElements(writers[w].batch, writers[w].arrived)

\* C18's case: a writer has read a full batch while more appends wait in
\* io, after it handled a seed from io that created the channel's log.
C18_Witness ==
  \E w \in Writers :
    /\ writers[w].pc = "readMore"
    /\ Len(writers[w].entries) = kChannelLogWriterQueueLength
    /\ writers[w].io # <<>>
    /\ writers[w].attempts = 0 /\ ~writers[w].err /\ ~failed
    /\ \E l \in MainSeedLogs :
         bucket[channelLogDocID(writers[w].channelName)] = encodeChannelLog(l)

\* s is t without some of its first elements.
IsSuffix(s, t) ==
  Len(s) <= Len(t) /\ s = SubSeq(t, Len(t) - Len(s) + 1, Len(t))

\* C19: with appends submitted in non-decreasing Sequence order, no seed and
\* no external writer, the stored log of the channel is always in
\* non-decreasing Sequence order, and every commit leaves a log made of the
\* last entries of the log before it followed by the last entries of the
\* batch: entries of earlier batches precede those of later ones.
C19_InOrderStaysSorted ==
  /\ [](\A i, j \in 1..Len(StoredEntries("A")) :
          i < j => StoredEntries("A")[i].Sequence <= StoredEntries("A")[j].Sequence)
  /\ [][\A w \in Writers :
          Committed(w)
            => \E k \in 0..Len(StoredEntries("A")), n \in 1..Len(writers[w].batch) :
                 /\ Len(StoredEntries("A")') = k + n
                 /\ IsSuffix(SubSeq(StoredEntries("A")', 1, k), StoredEntries("A"))
                 /\ IsSuffix(SubSeq(StoredEntries("A")', k + 1, k + n),
                             [i \in 1..Len(writers[w].batch) |->
                                writers[w].batch[i].logEntry])]_vars

\* C19's case: a second batch has been appended to the log behind the
\* entries of a first one.
C19_Witness ==
  /\ Len(StoredEntries("A")) = MaxChangeLogLength
  /\ StoredEntries("A")[1].Sequence < StoredEntries("A")[MaxChangeLogLength].Sequence
  /\ calls >= 2
  /\ \E w \in Writers : writers[w].pc = "write" /\ OnAppendPath(w)

\* The commit of writer w called TruncateEncodedChangeLog on a log of more
\* than numToKeep entries, and it did not leave between numToKeep/2 and
\* numToKeep of them.
TruncationFellShort(w) ==
  LET numToKeep == MaxChangeLogLength - Len(writers[w].batch)
      n == NumEncoded(writers[w].currentValue)
  IN /\ writers[w].currentValue # NoDoc
     /\ Len(writers[w].currentValue) > 0
     /\ numToKeep > 0
     /\ writers[w].fullUpdate
     /\ n > numToKeep
     /\ ~(/\ writers[w].removedCount > 0
          /\ n - writers[w].removedCount >= numToKeep \div 2
          /\ n - writers[w].removedCount <= numToKeep)

\* C20: with AlwaysCompactChangeLog, unless the truncation fell short, the
\* log stored by a successful commit holds at most MaxChangeLogLength
\* entries, whatever the document held before and whatever the batch.
C20_CompactBoundsLog ==
  [][\A w \in Writers :
       (Committed(w) /\ AlwaysCompactChangeLog /\ ~TruncationFellShort(w))
         => Len(StoredEntries(writers[w].channelName)') <= MaxChangeLogLength]_vars

\* C20's case: with AlwaysCompactChangeLog, a commit is about to succeed that
\* truncated a log of more than MaxChangeLogLength entries.
C20_Witness ==
  \E w \in Writers :
    /\ AlwaysCompactChangeLog
    /\ writers[w].pc = "write"
    /\ bucket[channelLogDocID(writers[w].channelName)] = writers[w].currentValue
    /\ writers[w].currentValue # NoDoc
    /\ NumEncoded(writers[w].currentValue) > MaxChangeLogLength
    /\ writers[w].removedCount > 0
    /\ ~TruncationFellShort(w)

====
